---- MODULE Spec2Model ----
(***************************************************************************)
(* Model of the ctypes wrapper class `lammps` (python/lammps/core.py).     *)
(*                                                                         *)
(* One wrapper object is modelled together with the native library it      *)
(* talks to.  Every method of the wrapper is one action; the native        *)
(* library is a stub whose answers (error raised or not, pointer null or   *)
(* not) are chosen nondeterministically.  Each action records the native   *)
(* entry points it invoked (a call spy) and how it ended.                  *)
(***************************************************************************)
EXTENDS Integers, Sequences, FiniteSets, TLC

VARIABLES
  lmp,            \* self.lmp: "None" (Python None), "NULL" (c_void_p(None)), "H" (non-null handle)
  opened,         \* self.opened: 0 or 1
  mode,           \* how the constructor got its handle: "own" (lammps_open gave a handle),
                  \* "ownNull" (lammps_open gave NULL), "ptr" (adopted from the caller),
                  \* "none" (it raised before it had one), "new" (it has not run yet)
  engineAlive,    \* the native instance behind handle "H" exists
  hasExceptions,  \* lammps_config_has_exceptions() != 0 for the loaded library
  err,            \* the engine's last-error slot
  nclose,         \* number of lammps_close invocations so far
  tornDown,       \* some teardown method (close, finalize, __del__) has run
  crashed,        \* the process died inside a native call on an invalid handle
  input,          \* the arguments the caller holds for a constructor, commands_list,
                  \* create_atoms or gather call (NoInput: none)
  held,           \* the caller holds the wrapper: the constructor returned normally
  nfinalize,      \* number of lammps_finalize invocations so far
  _installed_packages,  \* self._installed_packages: None or a list
  _available_styles,    \* self._available_styles: None or a dict category -> list
  restype,        \* self.lib.lammps_extract_global.restype: the return shape in force
  handed,         \* what the constructors run so far handed to the native create call
  last            \* the last method call: arguments, native calls made, outcome

vars == <<lmp, opened, mode, engineAlive, hasExceptions, err, nclose, tornDown, crashed, input,
          held, nfinalize, _installed_packages, _available_styles, restype,
          handed, last>>

(***************************************************************************)
(* Bounds.                                                                 *)
(***************************************************************************)
MaxClose == 2     \* teardown methods are explored while nclose < MaxClose
MaxFinalize == 2  \* finalize is explored while nfinalize < MaxFinalize
MaxIds == 2       \* available_ids: largest number of IDs the engine reports
MaxN == 2         \* create_atoms: largest atom count n
MaxExtra == 1     \* create_atoms: lists have up to n + MaxExtra (3n + MaxExtra) entries
MaxCount == 3     \* gather: largest number of values per element
MaxAtoms == 4     \* gather: largest number of elements (natoms, ndata)
MaxVersion == 2   \* constructor: largest version number of the module and of the library
MaxCmds == 3      \* commands_list: longest list of commands
MaxArgs == 2      \* constructor: longest cmdargs list the caller starts with
MaxCtor == 2      \* constructor: number of wrappers constructed from one list

(***************************************************************************)
(* Values.                                                                 *)
(***************************************************************************)
PyNone == "None"

\* Engine error messages as character sequences (whitespace matters to strip()).
Msgs == { <<"E", " ", "E">>, <<" ", "E", "\n">> }

White == {" ", "\n", "\t"}

RECURSIVE LStrip(_)
LStrip(s) == IF s # <<>> /\ Head(s) \in White THEN LStrip(Tail(s)) ELSE s

RECURSIVE RStrip(_)
RStrip(s) ==
  IF s # <<>> /\ s[Len(s)] \in White THEN RStrip(SubSeq(s, 1, Len(s) - 1)) ELSE s

\* str.strip()
Strip(s) == RStrip(LStrip(s))

\* Python truthiness of a text argument: None and "" are false.
Truthy(t) == t \notin {PyNone, ""}

\* Truthiness of self.lmp: None and c_void_p(None) are false.
HandleTruthy(h) == h = "H"

ERROR_ABORT == 2

NoError == [flag |-> 0, kind |-> 0, msg |-> <<>>, setBy |-> "-"]

\* What the engine does to its error slot during one native call.
NoSet == [kind |-> 0, msg |-> <<>>]
ErrChoices == {NoSet} \cup { [kind |-> k, msg |-> m] : k \in {1, ERROR_ABORT}, m \in Msgs }

NoShim == [ran |-> FALSE, flag |-> 0, kind |-> 0, msg |-> <<>>, setBy |-> "-"]

(***************************************************************************)
(* The native library (stub).  ctx = [err, calls]: the engine's error slot *)
(* and the native calls of the running method.                             *)
(***************************************************************************)
Ctx0 == [err |-> err, calls |-> <<>>, set |-> FALSE]

\* A native entry point taking the handle; e is the engine's reaction.
Native(ctx, fn, h, e) ==
  [ err   |-> IF e.kind = 0 THEN ctx.err
              ELSE [flag |-> 1, kind |-> e.kind, msg |-> e.msg, setBy |-> "this"],
    calls |-> Append(ctx.calls, [fn |-> fn, h |-> h]),
    set   |-> ctx.set \/ e.kind # 0 ]

\* A native extraction entry point: shape is the restype in force when it is
\* invoked, fresh tells that the running method assigned it for this call.
NativeShaped(ctx, fn, h, e, shape, fresh) ==
  [Native(ctx, fn, h, e) EXCEPT
     !.calls = Append(ctx.calls, [fn |-> fn, h |-> h, shape |-> shape, fresh |-> fresh])]

\* A native entry point that is handed a count and an array of C strings.
NativeArgs(ctx, fn, h, e, narg, args) ==
  [Native(ctx, fn, h, e) EXCEPT
     !.calls = Append(ctx.calls, [fn |-> fn, h |-> h, narg |-> narg, args |-> args])]

\* A native entry point without handle argument.
NativeNoHandle(ctx, fn) ==
  [ctx EXCEPT !.calls = Append(@, [fn |-> fn, h |-> "-"])]

\* lammps_get_last_error_message: hands out the message and clears the slot.
NativeGetLastErrorMessage(ctx, h) ==
  [ err   |-> NoError,
    calls |-> Append(ctx.calls, [fn |-> "lammps_get_last_error_message", h |-> h]),
    set   |-> ctx.set ]

(***************************************************************************)
(* Results of a method.                                                    *)
(***************************************************************************)
Res(ctx, outcome, value, exc, msg, seen) ==
  [ctx |-> ctx, outcome |-> outcome, value |-> value, items |-> <<>>,
   exc |-> exc, msg |-> msg, seen |-> seen]

Return(ctx, value, seen) == Res(ctx, "return", value, "-", <<>>, seen)

Raise(ctx, exc, msg, seen) == Res(ctx, "raise", "-", exc, msg, seen)

\* lammps._lammps_exception
ErrorMsg(s) == Strip(s)

AlwaysException(kind) == "Exception"

ExceptionKind(kind) == IF kind = ERROR_ABORT THEN "MPIAbortException" ELSE "Exception"

lammps_exception(ctx, h, seen) ==
  LET c == NativeGetLastErrorMessage(ctx, h)
  IN  Raise(c, ExceptionKind(ctx.err.kind), ErrorMsg(ctx.err.msg), seen)

\* The condition of ExceptionCheck.__exit__ once has_exceptions was read.
IgnoreSupport(support, flag) == flag = 1

ShimFires(support, flag) == support /\ flag = 1

\* ExceptionCheck.__exit__ after a block that ended normally with `value`.
ExceptionCheck(ctx, h, value) ==
  LET seen == [ran |-> TRUE, flag |-> ctx.err.flag, kind |-> ctx.err.kind,
               msg |-> ctx.err.msg, setBy |-> ctx.err.setBy]
      c1 == NativeNoHandle(ctx, "lammps_config_has_exceptions")
      \* `and` short-circuits: lammps_has_error is read only with exception support
      c2 == IF hasExceptions THEN Native(c1, "lammps_has_error", h, NoSet) ELSE c1
  IN  IF ShimFires(hasExceptions, ctx.err.flag)
        THEN lammps_exception(c2, h, seen)
        ELSE Return(c2, value, seen)

(***************************************************************************)
(* Finishing a method call.                                                *)
(***************************************************************************)
BadHandleUsed(calls) ==
  \E i \in 1..Len(calls) :
     /\ calls[i].h # "-"
     /\ calls[i].fn # "lammps_close"
     /\ (calls[i].h # "H" \/ ~engineAlive)

\* The slot's content is attributed to the method that has just ended.
Settle(e, outcome) ==
  IF e.flag = 1 /\ e.setBy = "this"
    THEN [e EXCEPT !.setBy = IF outcome = "return" THEN "returned" ELSE "raised"]
    ELSE e

Finish(op, arg, r) ==
  \E crash \in BOOLEAN :
     /\ crash => BadHandleUsed(r.ctx.calls)
     /\ crashed' = crash
     /\ err' = IF crash THEN err ELSE Settle(r.ctx.err, r.outcome)
     /\ last' = [ op |-> op, arg |-> arg,
                  outcome |-> IF crash THEN "crash" ELSE r.outcome,
                  value |-> r.value, items |-> r.items, exc |-> r.exc, msg |-> r.msg,
                  calls |-> r.ctx.calls, set |-> r.ctx.set, seen |-> r.seen,
                  lmpIn |-> lmp, first |-> ~tornDown ]

\* what a method other than the constructor and the teardown methods leaves alone
Attrs == <<lmp, opened, mode, engineAlive, hasExceptions, nclose, tornDown, input, held, nfinalize,
           handed>>

\* ... and what a method that rebinds lammps_extract_global.restype leaves alone
Kept == UNCHANGED <<Attrs, _installed_packages, _available_styles>>

Fixed == Kept /\ UNCHANGED restype

(***************************************************************************)
(* Construction and teardown.                                              *)
(***************************************************************************)
\* restype of a ctypes function that was never given one
DefaultRestype == "c_int"

\* A list attribute or argument is [none, items]: none for Python None.
NoneList == [none |-> TRUE, items |-> <<>>]

\* `if lst:` for an optional list: None and [] are false
ListTruthy(lst) == ~lst.none /\ lst.items # <<>>

\* the caller holds no arguments (cmdargs = None)
NoInput == [n |-> 0, given |-> FALSE, cmdargs |-> NoneList]

StyleCategories == {"pair", "fix"}

\* One entry of the dict self._available_styles; complete tells whether the
\* enumeration that filled the list ran to its end.
Absent == [present |-> FALSE, items |-> <<>>, complete |-> FALSE]

\* self._available_styles = None
NoStyles == [none |-> TRUE, dict |-> [c \in StyleCategories |-> Absent]]

InitBase ==
  /\ mode \in {"own", "ownNull", "ptr"}
  /\ hasExceptions \in BOOLEAN
  /\ opened = (IF mode = "ptr" THEN 0 ELSE 1)
  /\ lmp = (IF mode = "ownNull" THEN "NULL" ELSE "H")
  /\ engineAlive = (lmp = "H")
  /\ err = NoError
  /\ nclose = 0
  /\ tornDown = FALSE
  /\ crashed = FALSE
  /\ held = TRUE
  /\ nfinalize = 0
  /\ _installed_packages = NoneList
  /\ _available_styles = NoStyles
  /\ restype = DefaultRestype
  /\ handed = <<>>
  /\ last = [ op |-> "__init__", arg |-> [text |-> "-"], outcome |-> "return", value |-> "-",
              items |-> <<>>, exc |-> "-", msg |-> <<>>, calls |-> <<>>, set |-> FALSE,
              seen |-> NoShim,
              lmpIn |-> "None", first |-> TRUE ]

Init == InitBase /\ input = NoInput

\* The object exists once the constructor has run; close() and finalize() are
\* called by a caller that holds the wrapper, __del__ also by the collector.
Teardown(op, doClose, lmpAfter, openedAfter, calls) ==
  /\ ~crashed
  /\ mode # "new"
  /\ op # "__del__" => held
  /\ nclose < MaxClose
  /\ op = "finalize" => nfinalize < MaxFinalize
  /\ nclose' = IF doClose THEN nclose + 1 ELSE nclose
  /\ nfinalize' = IF op = "finalize" THEN nfinalize + 1 ELSE nfinalize
  /\ engineAlive' = IF doClose /\ lmp = "H" THEN FALSE ELSE engineAlive
  /\ lmp' = lmpAfter
  /\ opened' = openedAfter
  /\ tornDown' = TRUE
  /\ last' = [ op |-> op, arg |-> [text |-> "-"], outcome |-> "return", value |-> PyNone,
               items |-> <<>>, exc |-> "-", msg |-> <<>>, calls |-> calls, set |-> FALSE,
               seen |-> NoShim,
               lmpIn |-> lmp, first |-> ~tornDown ]
  /\ UNCHANGED <<mode, hasExceptions, err, crashed, input, held,
                 _installed_packages, _available_styles, restype, handed>>

CloseCall == <<[fn |-> "lammps_close", h |-> lmp]>>

\* close() that forgets to reset self.opened
close_keeps_opened ==
  Teardown("close", opened = 1, "None", opened,
           IF opened = 1 THEN CloseCall ELSE <<>>)

close ==
  Teardown("close", opened = 1, "None", 0,
           IF opened = 1 THEN CloseCall ELSE <<>>)

\* a call of lammps_finalize made while self.opened has the value o
FinalizeCall(o) == <<[fn |-> "lammps_finalize", h |-> "-", opened |-> o]>>

\* finalize() that shuts the subsystem down before it closes the handle
finalize_first ==
  Teardown("finalize", opened = 1, "None", 0,
           FinalizeCall(opened) \o (IF opened = 1 THEN CloseCall ELSE <<>>))

finalize ==
  Teardown("finalize", opened = 1, "None", 0,
           (IF opened = 1 THEN CloseCall ELSE <<>>) \o FinalizeCall(0))

\* __del__ that leaves the instance alone
del_without_close == Teardown("__del__", FALSE, lmp, opened, <<>>)

\* __del__ closes only when self.lmp is true, and resets opened only then
\* (the assignment is inside the if); self.lmp is left as it is.
__del__ ==
  LET c == HandleTruthy(lmp) /\ opened = 1
  IN  Teardown("__del__", c, lmp, IF c THEN 0 ELSE opened,
               IF c THEN CloseCall ELSE <<>>)

\* Entries of a list of strings: [t, s], the Python type and the text.
StrTexts == {"a", "b"}

Entries == [t : {"str", "bytes"}, s : StrTexts]

\* x.encode()
Encode(x) == [t |-> "bytes", s |-> x.s]

IsStr(x) == x.t = "str"

\* [x.encode() for x in lst]
EncodeAll(lst) == [i \in 1..Len(lst) |-> Encode(lst[i])]

\* (c_char_p * n)(*init): the initialisers fill the first slots, the other
\* slots are NULL pointers
CArray(n, init) == [i \in 1..n |-> IF i <= Len(init) THEN init[i].s ELSE "NULL"]

RECURSIVE ListsUpTo(_)
ListsUpTo(k) ==
  IF k = 0 THEN {<<>>}
  ELSE LET shorter == ListsUpTo(k - 1)
       IN  shorter \cup { Append(l, x) : l \in { m \in shorter : Len(m) = k - 1 }, x \in Entries }

(***************************************************************************)
(* The constructor.  The environment it finds is drawn with its arguments: *)
(* loaded: the shared library can be loaded; ptr, comm: the arguments are  *)
(* true; libMpi: the value of lammps_config_has_mpi_support(); mpi4py: the *)
(* major version of mpi4py ("-": not importable); commSize:                *)
(* MPI._sizeof(MPI.Comm); modVer: lammps.__version__; libVer: the value of *)
(* lammps_version(); openNull: lammps_open gives NULL.                     *)
(***************************************************************************)
SizeofCInt == 4

SizeofVoidP == 8

Mpi4pyVersions == {"-", "1", "3"}

CtorArgs ==
  [ loaded : BOOLEAN, ptr : BOOLEAN, comm : BOOLEAN, libMpi : {0, SizeofCInt, SizeofVoidP},
    mpi4py : Mpi4pyVersions, commSize : {SizeofCInt, SizeofVoidP},
    modVer : 0..MaxVersion, libVer : 1..MaxVersion, openNull : BOOLEAN ]

\* self.has_mpi_support
HasMpiSupport(a) == a.libMpi # 0

\* self.has_mpi4py
HasMpi4py(a) == HasMpiSupport(a) /\ a.mpi4py \in {"2", "3"}

\* sizeof(MPI_Comm) for the ctypes type chosen for the communicator
SizeofMPIComm(a) == IF a.commSize = SizeofCInt THEN SizeofCInt ELSE SizeofVoidP

\* the checks without the comparison of the communicator sizes
CommCheckNoSize(a) ==
  IF ~HasMpiSupport(a) THEN "no MPI"
  ELSE IF ~HasMpi4py(a) THEN "mpi4py"
  ELSE "-"

\* the three checks made when a communicator is given: "-" when all pass
CommCheck(a) ==
  IF ~HasMpiSupport(a) THEN "no MPI"
  ELSE IF ~HasMpi4py(a) THEN "mpi4py"
  ELSE IF SizeofMPIComm(a) # a.libMpi THEN "inconsistent"
  ELSE "-"

\* self.opened once the handle is there
OpenedAlways(ptr) == 1

OpenedAfter(ptr) == IF ptr THEN 0 ELSE 1

VersionDiffers(modVer, libVer) == modVer # libVer

VersionMismatch(modVer, libVer) == modVer > 0 /\ modVer # libVer

\* the native calls up to the creation of the instance
CtorCallsBefore(a) ==
  LET es  == [fn |-> "lammps_extract_setting", h |-> "None"]
      mpi == [fn |-> "lammps_config_has_mpi_support", h |-> "-"]
  IN  <<es, es, es, mpi>>
        \o (IF a.ptr THEN <<>>
            ELSE <<mpi>>
                   \o (IF ~a.comm THEN <<>>
                       ELSE IF ~HasMpiSupport(a) THEN <<mpi>>
                       ELSE IF ~HasMpi4py(a) THEN <<mpi>>
                       ELSE <<mpi, mpi>>))

\* how far the constructor gets: "load", "comm" (it raised there), "version"
\* (it raised in the version check) or "done"
CtorStage(a) ==
  IF ~a.loaded THEN "load"
  ELSE IF ~a.ptr /\ a.comm /\ CommCheck(a) # "-" THEN "comm"
  ELSE IF VersionMismatch(a.modVer, a.libVer) THEN "version"
  ELSE "done"

CtorHandle(a) ==
  IF CtorStage(a) \in {"load", "comm"} THEN "None"
  ELSE IF a.ptr THEN "H"
  ELSE IF a.openNull THEN "NULL" ELSE "H"

\* the executable name the constructor puts in front
ExeName == [t |-> "str", s |-> "lammps"]

\* if type(cmdargs[i]) is str: cmdargs[i] = cmdargs[i].encode()
EncodeIfStr(x) == IF IsStr(x) THEN Encode(x) ELSE x

\* the list encoded in place, without the executable name
WithoutExeName(lst) ==
  [none |-> FALSE, items |-> [i \in 1..Len(lst.items) |-> EncodeIfStr(lst.items[i])]]

\* cmdargs after cmdargs.insert(0,"lammps") and the loop that encodes its
\* str entries in place
Prepared(lst) ==
  LET all == <<ExeName>> \o lst.items
  IN  [none |-> FALSE, items |-> [i \in 1..Len(all) |-> EncodeIfStr(all[i])]]

\* the constructor gets as far as the native create call
ReachesOpen(a) == CtorStage(a) \notin {"load", "comm"} /\ ~a.ptr

\* narg and cargs as handed to lammps_open / lammps_open_no_mpi; argv tells
\* whether an array or a NULL pointer (None) is passed
OpenArgv(lst) ==
  IF ListTruthy(lst)
    THEN LET narg == Len(Prepared(lst).items)
         IN  [narg |-> narg, args |-> CArray(narg, Prepared(lst).items), argv |-> "array"]
    ELSE [narg |-> 0, args |-> <<>>, argv |-> "NULL"]

\* the caller's list once the constructor has run
ListAfter(a, lst) == IF ReachesOpen(a) /\ ListTruthy(lst) THEN Prepared(lst) ELSE lst

CtorCalls(a, lst) ==
  LET h == CtorHandle(a)
      ver == [fn |-> "lammps_version", h |-> h]
      open == [fn |-> IF a.comm THEN "lammps_open" ELSE "lammps_open_no_mpi", h |-> "-"]
  IN  IF CtorStage(a) = "load" THEN <<>>
      ELSE IF CtorStage(a) = "comm" THEN CtorCallsBefore(a)
      ELSE CtorCallsBefore(a)
             \o (IF a.ptr THEN <<>> ELSE <<open @@ OpenArgv(lst)>>)
             \o (IF a.modVer > 0 THEN <<ver>> ELSE <<>>)
             \o (IF CtorStage(a) = "version" THEN <<ver>> ELSE <<>>)

CtorMode(a) ==
  IF CtorStage(a) \in {"load", "comm"} THEN "none"
  ELSE IF a.ptr THEN "ptr"
  ELSE IF a.openNull THEN "ownNull" ELSE "own"

CtorExc(a) ==
  CASE CtorStage(a) = "load"    -> "OSError"
    [] CtorStage(a) = "comm"    -> "Exception"
    [] CtorStage(a) = "version" -> "AttributeError"
    [] OTHER                    -> "-"

\* lammps(cmdargs=input.cmdargs, ...) in one of the environments of A
Construct(A) ==
  /\ mode = "new"
  /\ \E a \in A, crash \in BOOLEAN :
        LET calls == CtorCalls(a, input.cmdargs)
            stage == CtorStage(a)
        IN  \* lammps_version on a NULL handle may take the process down
            /\ crash => (CtorHandle(a) = "NULL" /\ a.modVer > 0)
            /\ crashed' = crash
            /\ mode' = CtorMode(a)
            /\ lmp' = CtorHandle(a)
            /\ opened' = IF stage \in {"load", "comm"} THEN 0 ELSE OpenedAfter(a.ptr)
            /\ engineAlive' = (CtorHandle(a) = "H")
            /\ held' = (stage = "done" /\ ~crash)
            /\ input' = [input EXCEPT !.cmdargs = ListAfter(a, input.cmdargs)]
            /\ handed' = IF ReachesOpen(a) THEN Append(handed, OpenArgv(input.cmdargs))
                          ELSE handed
            /\ last' = [ op |-> "__init__",
                         arg |-> a @@ [text |-> "-", cmdargs |-> input.cmdargs],
                         outcome |-> IF crash THEN "crash"
                                     ELSE IF stage = "done" THEN "return" ELSE "raise",
                         value |-> "-", items |-> <<>>, exc |-> CtorExc(a), msg |-> <<>>,
                         calls |-> calls, set |-> FALSE, seen |-> NoShim,
                         lmpIn |-> "None", first |-> TRUE ]
  /\ _installed_packages' = NoneList
  /\ _available_styles' = NoStyles
  /\ restype' = DefaultRestype
  /\ UNCHANGED <<hasExceptions, err, nclose, nfinalize, tornDown>>

__init__ == Construct(CtorArgs)

\* An environment in which the constructor gets through: the library loads,
\* MPI and mpi4py agree, no version is compared.
OpenArgs ==
  { a \in CtorArgs :
      /\ a.loaded /\ ~a.ptr
      /\ a.libMpi = SizeofCInt /\ a.commSize = SizeofCInt /\ a.mpi4py = "3"
      /\ a.modVer = 0 /\ a.libVer = 1 }

\* lammps(cmdargs=...) in such an environment
lammps_cmdargs == Construct(OpenArgs)

\* The caller lets go of a wrapper whose instance is gone, so that the next
\* constructor call makes a new object.
release ==
  /\ mode # "new"
  /\ ~crashed
  /\ ~engineAlive
  /\ Len(handed) < MaxCtor
  /\ mode' = "new"
  /\ lmp' = "None"
  /\ opened' = 0
  /\ held' = FALSE
  /\ tornDown' = FALSE
  /\ UNCHANGED <<engineAlive, hasExceptions, err, nclose, nfinalize, crashed, input,
                 _installed_packages, _available_styles, restype, handed, last>>

\* the lists a caller passes as cmdargs
ArgInputs ==
  { [n |-> 0, given |-> TRUE, cmdargs |-> l] :
      l \in {NoneList} \cup { [none |-> FALSE, items |-> it] : it \in ListsUpTo(MaxArgs) } }

\* Before the constructor runs.
Unconstructed ==
  /\ mode = "new"
  /\ hasExceptions \in BOOLEAN
  /\ opened = 0
  /\ lmp = "None"
  /\ engineAlive = FALSE
  /\ err = NoError
  /\ nclose = 0
  /\ nfinalize = 0
  /\ tornDown = FALSE
  /\ crashed = FALSE
  /\ held = FALSE
  /\ handed = <<>>
  /\ _installed_packages = NoneList
  /\ _available_styles = NoStyles
  /\ restype = DefaultRestype
  /\ last = [ op |-> "-", arg |-> [text |-> "-"], outcome |-> "return", value |-> "-",
              items |-> <<>>, exc |-> "-", msg |-> <<>>, calls |-> <<>>, set |-> FALSE,
              seen |-> NoShim, lmpIn |-> "None", first |-> TRUE ]

InitNew == Unconstructed /\ input = NoInput

InitArgs == Unconstructed /\ input \in ArgInputs

(***************************************************************************)
(* Commands.                                                               *)
(***************************************************************************)
Texts == {PyNone, "", "txt"}

\* if x: x = x.encode() / else: return <sentinel>; one native call in the shim
GuardedShimCall(op, fn, text, sentinel, value) ==
  /\ ~crashed
  /\ \E e \in ErrChoices :
        Finish(op, [text |-> text],
               IF Truthy(text)
                 THEN ExceptionCheck(Native(Ctx0, fn, lmp, e), lmp, value)
                 ELSE Return(Ctx0, sentinel, NoShim))
  /\ Fixed

file == \E path \in Texts : GuardedShimCall("file", "lammps_file", path, PyNone, PyNone)

command == \E cmd \in Texts : GuardedShimCall("command", "lammps_command", cmd, PyNone, PyNone)

get_thermo ==
  \E name \in Texts : GuardedShimCall("get_thermo", "lammps_get_thermo", name, PyNone, "value")

\* commands_string has no guard on its argument
commands_string ==
  /\ ~crashed
  /\ \E multicmd \in Texts, e \in ErrChoices :
        Finish("commands_string", [text |-> multicmd],
               ExceptionCheck(Native(Ctx0, "lammps_commands_string", lmp, e), lmp, PyNone))
  /\ Fixed


\* a method that makes one native call without guard and without shim
UnshimmedCall(op, fn, arg, value) ==
  /\ ~crashed
  /\ \E e \in ErrChoices :
        Finish(op, [text |-> arg], Return(Native(Ctx0, fn, lmp, e), value, NoShim))
  /\ Fixed

\* get_natoms: no shim
get_natoms == UnshimmedCall("get_natoms", "lammps_get_natoms", "-", "value")

\* extract_setting: guarded, no shim
extract_setting ==
  /\ ~crashed
  /\ \E name \in Texts, e \in ErrChoices :
        Finish("extract_setting", [text |-> name],
               IF Truthy(name)
                 THEN Return(Native(Ctx0, "lammps_extract_setting", lmp, e), "value", NoShim)
                 ELSE Return(Ctx0, PyNone, NoShim))
  /\ Fixed

\* Values handed to set_variable; `if value:` is false for the first five.
VarValues == {PyNone, "", "0", "0.0", "False", "txt", "1"}

ValueTruthy(v) == v \notin {PyNone, "", "0", "0.0", "False"}

set_variable ==
  /\ ~crashed
  /\ \E name \in Texts, value \in VarValues, e \in ErrChoices :
        Finish("set_variable", [text |-> name, value |-> value],
               IF ~Truthy(name) THEN Return(Ctx0, "-1", NoShim)
               ELSE IF ~ValueTruthy(value) THEN Return(Ctx0, "-1", NoShim)
               ELSE ExceptionCheck(Native(Ctx0, "lammps_set_variable", lmp, e), lmp, "rc"))
  /\ Fixed

has_style == UnshimmedCall("has_style", "lammps_has_style", "pair", "bool")

find_pair_neighlist ==
  UnshimmedCall("find_pair_neighlist", "lammps_find_pair_neighlist", "txt", "idx")

find_fix_neighlist ==
  UnshimmedCall("find_fix_neighlist", "lammps_find_fix_neighlist", "txt", "idx")

find_compute_neighlist ==
  UnshimmedCall("find_compute_neighlist", "lammps_find_compute_neighlist", "txt", "idx")

(***************************************************************************)
(* Lists of strings handed to the engine.  An entry is [t, s]: its Python  *)
(* type ("str" or "bytes") and its text (defined with the constructor).    *)
(***************************************************************************)
CmdInputs == { [n |-> 0, given |-> TRUE, cmdlist |-> l] : l \in ListsUpTo(MaxCmds) }

\* commands_list(cmdlist)
commands_list ==
  /\ ~crashed
  /\ input.given
  /\ \E e \in ErrChoices :
        LET cmds == EncodeAll(SelectSeq(input.cmdlist, IsStr))
            narg == Len(input.cmdlist)
            args == CArray(narg, cmds)
        IN  Finish("commands_list", [text |-> "-", cmdlist |-> input.cmdlist],
                   ExceptionCheck(NativeArgs(Ctx0, "lammps_commands_list", lmp, e, narg, args),
                                  lmp, PyNone))
  /\ Fixed

(***************************************************************************)
(* Typed extraction.  Datatype, style and type constants are written as    *)
(* their names; "BAD" is a value that is none of the constants.            *)
(***************************************************************************)
\* In the extraction and bulk methods the engine's reaction to one native call.
ErrBrief == {NoSet, [kind |-> 1, msg |-> <<" ", "E", "\n">>]}

ErrIf(cond) == IF cond THEN ErrBrief ELSE {NoSet}

\* The engine's table of global properties: datatype per keyword, "-1" when unknown.
EngineGlobalType(name) ==
  CASE name = "natoms"       -> "LAMMPS_INT64"
    [] name = "nlocal"       -> "LAMMPS_INT"
    [] name = "boxlo"        -> "LAMMPS_DOUBLE"
    [] name = "units"        -> "LAMMPS_STRING"
    [] name = "respa_levels" -> "LAMMPS_INT"
    [] name = "respa_dt"     -> "LAMMPS_DOUBLE"
    [] OTHER                 -> "-1"

\* lammps_extract_global returns a non-null pointer for these; the r-RESPA
\* entries exist only while the r-RESPA integrator is in use (levels > 0).
EngineGlobalKnown(name, levels) ==
  /\ EngineGlobalType(name) # "-1"
  /\ name \in {"respa_levels", "respa_dt"} => levels > 0

EngineAtomType(name) ==
  CASE name = "mass" -> "LAMMPS_DOUBLE"
    [] name = "x"    -> "LAMMPS_DOUBLE_2D"
    [] name = "type" -> "LAMMPS_INT"
    [] OTHER         -> "-1"

GlobalNames == {PyNone, "", "natoms", "boxlo", "units", "respa_dt", "zz"}

GlobalDtypes ==
  {"LAMMPS_AUTODETECT", "LAMMPS_INT", "LAMMPS_INT64", "LAMMPS_DOUBLE", "LAMMPS_STRING", "BAD"}

vec_dict == {"boxlo", "boxhi", "sublo", "subhi", "sublo_lambda", "subhi_lambda", "periodicity"}

\* extract_global_datatype / extract_atom_datatype as called from the extractors:
\* the context after the call and the value returned.
DatatypeQuery(ctx, h, fn, name, type, e) ==
  IF Truthy(name)
    THEN [ctx |-> Native(ctx, fn, h, e), value |-> type]
    ELSE [ctx |-> ctx, value |-> PyNone]

\* the dtype branches of extract_global that bind target_type
BindsTargetType(dtype) == dtype \in {"LAMMPS_INT", "LAMMPS_INT64", "LAMMPS_DOUBLE"}

SetsGlobalRestype(dtype) == BindsTargetType(dtype) \/ dtype = "LAMMPS_STRING"

\* the restype a dtype branch of extract_global assigns
GlobalShape(dtype) ==
  CASE dtype = "LAMMPS_INT"    -> "POINTER(c_int32)"
    [] dtype = "LAMMPS_INT64"  -> "POINTER(c_int64)"
    [] dtype = "LAMMPS_DOUBLE" -> "POINTER(c_double)"
    [] dtype = "LAMMPS_STRING" -> "c_char_p"
    [] OTHER                   -> "-"

\* the dtype extract_global works with once LAMMPS_AUTODETECT is resolved
GlobalDtype(name, dtype) ==
  IF dtype # "LAMMPS_AUTODETECT" THEN dtype
  ELSE IF Truthy(name) THEN EngineGlobalType(name) ELSE PyNone

\* lammps_extract_global.restype when extract_global(name, dtype) invokes the
\* entry point, before being the restype when the method was entered; the nested
\* extraction of respa_levels leaves POINTER(c_int32) behind.
ShapeInForce(name, dtype, before) ==
  LET dt == GlobalDtype(name, dtype)
  IN  IF SetsGlobalRestype(dt) THEN GlobalShape(dt)
      ELSE IF name = "respa_dt" THEN GlobalShape("LAMMPS_INT")
      ELSE before

\* A non-null result read through a pointer shape is true; read as a C int
\* or as a C string it is true or false, depending on the bytes behind it.
PointerShapes == {"POINTER(c_int32)", "POINTER(c_int64)", "POINTER(c_double)"}

\* lammps_extract_global.restype after extract_global(name, dtype)
RestypeAfter(name, dtype, before) ==
  IF Truthy(name) THEN ShapeInForce(name, dtype, before) ELSE before

\* extract_global(name, dtype).  levels: the engine's number of r-RESPA levels
\* (0: no r-RESPA); leftover: whether a result read through the return shape
\* an earlier call left behind is true; e1, e2, e3: the engine's reaction to the
\* datatype query, to the nested respa_levels extraction and to the extraction.
ExtractGlobal(ctx, h, name, dtype, levels, leftover, e1, e2, e3) ==
  LET q      == IF dtype = "LAMMPS_AUTODETECT"
                  THEN DatatypeQuery(ctx, h, "lammps_extract_global_datatype", name,
                                     EngineGlobalType(name), e1)
                  ELSE [ctx |-> ctx, value |-> dtype]
      dt     == q.value
      \* veclen = self.extract_global('respa_levels', LAMMPS_INT)
      c2     == IF name = "respa_dt"
                  THEN NativeShaped(q.ctx, "lammps_extract_global", h, e2,
                                    GlobalShape("LAMMPS_INT"), TRUE)
                ELSE q.ctx
      isVec  == IF name \in vec_dict THEN TRUE
                ELSE IF name = "respa_dt" THEN levels > 1
                ELSE FALSE
      c3     == NativeShaped(c2, "lammps_extract_global", h, e3,
                             ShapeInForce(name, dtype, restype), SetsGlobalRestype(dt))
      known  == EngineGlobalKnown(name, levels)
      ptr    == IF SetsGlobalRestype(dt) THEN known ELSE known /\ leftover
  IN  IF ~Truthy(name) THEN Return(c2, PyNone, NoShim)
      ELSE IF ~ptr THEN Return(c3, PyNone, NoShim)
      ELSE IF dt = "LAMMPS_STRING" THEN Return(c3, "value", NoShim)
      ELSE IF ~BindsTargetType(dt) THEN Raise(c3, "UnboundLocalError", <<>>, NoShim)
      ELSE Return(c3, IF isVec THEN "list" ELSE "value", NoShim)

extract_global ==
  /\ ~crashed
  /\ \E name \in GlobalNames, dtype \in GlobalDtypes :
     \E levels \in (IF name = "respa_dt" THEN {0, 1, 2} ELSE {0}),
        leftover \in (IF SetsGlobalRestype(dtype) \/ dtype = "LAMMPS_AUTODETECT"
                           \/ ShapeInForce(name, dtype, restype) \in PointerShapes
                        THEN {TRUE} ELSE BOOLEAN),
        e1 \in ErrIf(dtype = "LAMMPS_AUTODETECT" /\ Truthy(name)),
        e2 \in ErrIf(name = "respa_dt"),
        e3 \in ErrIf(Truthy(name)) :
        /\ Finish("extract_global",
                  [text |-> name, dtype |-> dtype,
                   unknown |-> ~EngineGlobalKnown(name, levels)],
                  ExtractGlobal(Ctx0, lmp, name, dtype, levels, leftover, e1, e2, e3))
        /\ restype' = RestypeAfter(name, dtype, restype)
  /\ Kept

\* extract_global_datatype(name) called by the user: the engine's answer is
\* returned as it is, -1 for a keyword the engine does not know.
extract_global_datatype ==
  /\ ~crashed
  /\ \E name \in GlobalNames, e \in ErrBrief :
        LET q == DatatypeQuery(Ctx0, lmp, "lammps_extract_global_datatype", name,
                               EngineGlobalType(name), IF Truthy(name) THEN e ELSE NoSet)
        IN  Finish("extract_global_datatype",
                   [text |-> name, unknown |-> EngineGlobalType(name) = "-1"],
                   Return(q.ctx, q.value, NoShim))
  /\ Fixed

AtomNames == {PyNone, "", "mass", "x", "zz"}

AtomSupported ==
  {"LAMMPS_INT", "LAMMPS_INT_2D", "LAMMPS_DOUBLE", "LAMMPS_DOUBLE_2D",
   "LAMMPS_INT64", "LAMMPS_INT64_2D"}

AtomDtypes == AtomSupported \cup {"LAMMPS_AUTODETECT", "LAMMPS_STRING", "BAD"}

ExtractAtom(ctx, h, name, dtype, e1, e2) ==
  LET q  == IF dtype = "LAMMPS_AUTODETECT"
              THEN DatatypeQuery(ctx, h, "lammps_extract_atom_datatype", name,
                                 EngineAtomType(name), e1)
              ELSE [ctx |-> ctx, value |-> dtype]
      c2 == NativeShaped(q.ctx, "lammps_extract_atom", h, e2, "own", TRUE)
  IN  IF ~Truthy(name) THEN Return(q.ctx, PyNone, NoShim)
      ELSE IF q.value \notin AtomSupported THEN Return(q.ctx, PyNone, NoShim)
      ELSE IF EngineAtomType(name) # "-1" THEN Return(c2, "ptr", NoShim)
      ELSE Return(c2, PyNone, NoShim)

extract_atom_datatype ==
  /\ ~crashed
  /\ \E name \in AtomNames, e \in ErrBrief :
        LET q == DatatypeQuery(Ctx0, lmp, "lammps_extract_atom_datatype", name,
                               EngineAtomType(name), IF Truthy(name) THEN e ELSE NoSet)
        IN  Finish("extract_atom_datatype",
                   [text |-> name, unknown |-> EngineAtomType(name) = "-1"],
                   Return(q.ctx, q.value, NoShim))
  /\ Fixed

extract_atom ==
  /\ ~crashed
  /\ \E name \in AtomNames, dtype \in AtomDtypes :
     \E e1 \in ErrIf(dtype = "LAMMPS_AUTODETECT" /\ Truthy(name)),
        e2 \in ErrIf(Truthy(name)) :
        Finish("extract_atom",
               [text |-> name, dtype |-> dtype, unknown |-> EngineAtomType(name) = "-1"],
               ExtractAtom(Ctx0, lmp, name, dtype, e1, e2))
  /\ Fixed

Styles == {"LMP_STYLE_GLOBAL", "LMP_STYLE_ATOM", "LMP_STYLE_LOCAL", "BAD"}

Types ==
  {"LMP_TYPE_SCALAR", "LMP_TYPE_VECTOR", "LMP_TYPE_ARRAY",
   "LMP_SIZE_VECTOR", "LMP_SIZE_ROWS", "LMP_SIZE_COLS", "BAD"}

Ids == {PyNone, "", "id1", "zz"}

\* The engine knows "id1"; for an ID it does not know the native call returns NULL.
\* For a known ID the call returns NULL or a buffer (arg.null); arg.owned says
\* that the buffer requested is one the engine allocated for the caller.
EngineKnowsId(id) == id = "id1"

\* What the caller gets from a pointer result: `return ptr` hands a NULL pointer
\* object through, `return ptr[0]` raises ValueError on it.
Unchecked(ctx, null, deref, seen) ==
  IF deref
    THEN IF null THEN Raise(ctx, "ValueError", <<>>, seen) ELSE Return(ctx, "value", seen)
    ELSE Return(ctx, IF null THEN "nullptr" ELSE "ptr", seen)

\* with ExceptionCheck(self): ptr = native(...); then ptr or ptr[0], and
\* lammps_free(ptr) where the code releases the buffer.
ShimmedPointer(ctx, h, fn, e, null, deref, free) ==
  LET r == ExceptionCheck(NativeShaped(ctx, fn, h, e, "own", TRUE), h, "ptr")
      u == Unchecked(r.ctx, null, deref, r.seen)
  IN  IF r.outcome = "raise" THEN r
      ELSE IF free /\ u.outcome = "return"
        THEN [u EXCEPT !.ctx = NativeNoHandle(u.ctx, "lammps_free")]
      ELSE u

\* which branch of extract_compute is taken: "deref" (return ptr[0]),
\* "ptr" (return ptr) or "none" (return None without native call)
ComputeBranch(style, type) ==
  LET GAL == {"LMP_STYLE_GLOBAL", "LMP_STYLE_ATOM", "LMP_STYLE_LOCAL"}
      GL  == {"LMP_STYLE_GLOBAL", "LMP_STYLE_LOCAL"}
  IN  CASE type = "LMP_TYPE_SCALAR" -> IF style \in GL THEN "deref" ELSE "none"
        [] type \in {"LMP_TYPE_VECTOR", "LMP_TYPE_ARRAY"} -> "ptr"
        [] type = "LMP_SIZE_COLS" -> IF style \in GAL THEN "deref" ELSE "none"
        [] type \in {"LMP_SIZE_VECTOR", "LMP_SIZE_ROWS"} ->
             IF style \in GL THEN "deref" ELSE "none"
        [] OTHER -> "none"

\* the branches of extract_fix; "free" is `result = ptr[0]; lammps_free(ptr)`
FixBranch(style, type) ==
  LET TV == {"LMP_TYPE_VECTOR", "LMP_TYPE_ARRAY"}
      SZ == {"LMP_SIZE_VECTOR", "LMP_SIZE_ROWS", "LMP_SIZE_COLS"}
  IN  CASE style = "LMP_STYLE_GLOBAL" ->
             IF type \in TV \cup {"LMP_TYPE_SCALAR"} THEN "free"
             ELSE IF type \in SZ THEN "deref" ELSE "none"
        [] style = "LMP_STYLE_ATOM" ->
             IF type \in TV THEN "ptr"
             ELSE IF type = "LMP_SIZE_COLS" THEN "deref" ELSE "none"
        [] style = "LMP_STYLE_LOCAL" ->
             IF type \in TV THEN "ptr"
             ELSE IF type \in SZ \cup {"LMP_TYPE_SCALAR"} THEN "deref" ELSE "none"
        [] OTHER -> "none"

ExtractStyled(ctx, h, fn, id, branch, null, e) ==
  IF ~Truthy(id) \/ branch = "none" THEN Return(ctx, PyNone, NoShim)
  ELSE ShimmedPointer(ctx, h, fn, e, null, branch \in {"deref", "free"}, branch = "free")

StyledAction(op, fn, id, style, type, branch) ==
  /\ ~crashed
  /\ \E null \in (IF EngineKnowsId(id) THEN BOOLEAN ELSE {TRUE}),
        e \in ErrIf(Truthy(id) /\ branch # "none") :
        Finish(op, [text |-> id, style |-> style, type |-> type,
                    unknown |-> ~EngineKnowsId(id), null |-> null,
                    owned |-> branch = "free"],
               ExtractStyled(Ctx0, lmp, fn, id, branch, null, e))
  /\ Fixed

extract_compute ==
  \E id \in Ids, style \in Styles, type \in Types :
     StyledAction("extract_compute", "lammps_extract_compute", id, style, type,
                  ComputeBranch(style, type))

extract_fix ==
  \E id \in Ids, style \in Styles, type \in Types :
     StyledAction("extract_fix", "lammps_extract_fix", id, style, type,
                  FixBranch(style, type))

VarTypes == {"LMP_VAR_EQUAL", "LMP_VAR_ATOM", "BAD"}

\* extract_variable(name, group, vartype): `if ptr:` guards both branches.
ExtractVariable(ctx, h, name, vartype, null, e1, e2, e3) ==
  LET g  == ExtractGlobal(ctx, h, "nlocal", "LAMMPS_AUTODETECT", 0, TRUE, e1, e2, NoSet)
      c0 == IF vartype = "LMP_VAR_ATOM" THEN g.ctx ELSE ctx
      r  == ExceptionCheck(NativeShaped(c0, "lammps_extract_variable", h, e3, "own", TRUE),
                           h, "ptr")
  IN  IF ~Truthy(name) THEN Return(ctx, PyNone, NoShim)
      ELSE IF vartype \notin {"LMP_VAR_EQUAL", "LMP_VAR_ATOM"} THEN Return(ctx, PyNone, NoShim)
      ELSE IF r.outcome = "raise" THEN r
      ELSE IF null THEN Return(r.ctx, PyNone, r.seen)
      ELSE Return(NativeNoHandle(r.ctx, "lammps_free"),
                  IF vartype = "LMP_VAR_ATOM" THEN "list" ELSE "value", r.seen)

extract_variable ==
  /\ ~crashed
  /\ \E name \in Ids, vartype \in VarTypes :
     \E null \in (IF EngineKnowsId(name) THEN BOOLEAN ELSE {TRUE}),
        e1 \in ErrIf(Truthy(name) /\ vartype = "LMP_VAR_ATOM"),
        e2 \in ErrIf(Truthy(name) /\ vartype = "LMP_VAR_ATOM"),
        e3 \in ErrIf(Truthy(name) /\ vartype # "BAD") :
        /\ Finish("extract_variable",
                  [text |-> name, vartype |-> vartype, unknown |-> ~EngineKnowsId(name),
                   null |-> null, owned |-> TRUE],
                  ExtractVariable(Ctx0, lmp, name, vartype, null, e1, e2, e3))
        \* nlocal = self.extract_global("nlocal")
        /\ restype' = IF Truthy(name) /\ vartype = "LMP_VAR_ATOM"
                         THEN RestypeAfter("nlocal", "LAMMPS_AUTODETECT", restype)
                         ELSE restype
  /\ Kept

(***************************************************************************)
(* Introspection.                                                          *)
(***************************************************************************)
IdCategories == {"compute", "dump", "fix", "group", "molecule", "region", "variable"}

\* a native name entry point asked for the entry at index idx
NativeIdx(ctx, fn, h, e, idx) ==
  LET c == Native(ctx, fn, h, e)
  IN  [c EXCEPT !.calls = Append(ctx.calls, [fn |-> fn, h |-> h, idx |-> idx])]

\* the engine's reaction to the i-th name call
ErrAt(es, i) == IF i \in DOMAIN es THEN es[i] ELSE NoSet

\* for idx in range(num) ends after index num - 1
LoopPastEnd(idx, num) == idx > num

LoopDone(idx, num) == idx >= num

\* for idx in range(num): name(..., idx, ...); lst.append(...), no shim.
\* The name the engine gives for index idx is written idx.
RECURSIVE NameLoop(_, _, _, _, _, _, _)
NameLoop(ctx, fn, h, idx, num, es, names) ==
  IF LoopDone(idx, num) THEN [ctx |-> ctx, names |-> names]
  ELSE NameLoop(NativeIdx(ctx, fn, h, ErrAt(es, idx + 1), idx), fn, h, idx + 1, num, es,
                Append(names, idx))

IdNameLoop(ctx, h, idx, num, es, names) ==
  NameLoop(ctx, "lammps_id_name", h, idx, num, es, names)

ReturnList(ctx, items, seen) == [Return(ctx, "list", seen) EXCEPT !.items = items]

\* available_ids: no shim around lammps_id_count and lammps_id_name
available_ids ==
  /\ ~crashed
  /\ \E category \in {"fix", "zz"}, num \in 0..MaxIds, e \in ErrBrief :
     \E es \in [1..num -> ErrBrief] :
        LET loop == IdNameLoop(Native(Ctx0, "lammps_id_count", lmp, e), lmp, 0, num, es, <<>>)
        IN  Finish("available_ids", [text |-> category, num |-> num],
                   IF category \in IdCategories
                     THEN ReturnList(loop.ctx, loop.names, NoShim)
                     ELSE ReturnList(Ctx0, <<>>, NoShim))
  /\ Fixed

\* available_plugins: lammps_plugin_count and lammps_plugin_name take no handle
available_plugins ==
  /\ ~crashed
  /\ \E num \in 0..MaxIds :
        LET loop == NameLoop(NativeNoHandle(Ctx0, "lammps_plugin_count"),
                             "lammps_plugin_name", "-", 0, num, <<>>, <<>>)
        IN  Finish("available_plugins", [text |-> "-", num |-> num],
                   ReturnList(loop.ctx, loop.names, NoShim))
  /\ Fixed

\* installed_packages: enumerated on first use, then served from the attribute
installed_packages ==
  /\ ~crashed
  /\ \E num \in (IF _installed_packages.none THEN 0..MaxIds ELSE {0}) :
        LET loop  == NameLoop(NativeNoHandle(Ctx0, "lammps_config_package_count"),
                              "lammps_config_package_name", "-", 0, num, <<>>, <<>>)
            fresh == _installed_packages.none
        IN  /\ Finish("installed_packages", [text |-> "-", num |-> num, hit |-> ~fresh],
                      IF fresh THEN ReturnList(loop.ctx, loop.names, NoShim)
                      ELSE ReturnList(Ctx0, _installed_packages.items, NoShim))
            /\ _installed_packages' =
                 IF fresh THEN [none |-> FALSE, items |-> loop.names] ELSE _installed_packages
  /\ UNCHANGED <<Attrs, _available_styles, restype>>

\* for idx in range(nstyles): with ExceptionCheck(self): lammps_style_name(...);
\* self._available_styles[category].append(...)
\* names is the list in the dict; seen is what the last shim exit saw.
RECURSIVE StyleNameLoop(_, _, _, _, _, _, _)
StyleNameLoop(ctx, h, idx, num, es, names, seen) ==
  IF LoopDone(idx, num)
    THEN [res |-> ReturnList(ctx, names, seen), names |-> names, complete |-> TRUE]
  ELSE LET r == ExceptionCheck(NativeIdx(ctx, "lammps_style_name", h, ErrAt(es, idx + 1), idx),
                               h, "-")
       IN  IF r.outcome = "raise"
             THEN [res |-> r, names |-> names, complete |-> FALSE]
             ELSE StyleNameLoop(r.ctx, h, idx + 1, num, es, Append(names, idx), r.seen)

\* available_styles(category): the list is put into the dict before the engine
\* is asked, and filled in place
AvailableStyles(ctx, h, num, e, es) ==
  LET cnt == ExceptionCheck(Native(ctx, "lammps_style_count", h, e), h, "-")
  IN  IF cnt.outcome = "raise"
        THEN [res |-> cnt, names |-> <<>>, complete |-> FALSE]
        ELSE StyleNameLoop(cnt.ctx, h, 0, num, es, <<>>, cnt.seen)

available_styles ==
  /\ ~crashed
  /\ \E category \in StyleCategories :
        LET entry == _available_styles.dict[category]
        IN  \E num \in (IF entry.present THEN {0} ELSE 0..MaxIds),
               e \in (IF entry.present THEN {NoSet} ELSE ErrBrief) :
            \E es \in [1..num -> ErrBrief] :
               LET a == AvailableStyles(Ctx0, lmp, num, e, es)
               IN  /\ Finish("available_styles",
                             [text |-> category, num |-> num, hit |-> entry.present,
                              stale |-> entry.present /\ ~entry.complete],
                             IF entry.present
                               THEN ReturnList(Ctx0, entry.items, NoShim)
                               ELSE a.res)
                   /\ _available_styles' =
                        IF entry.present THEN _available_styles
                        ELSE [ none |-> FALSE,
                               dict |-> [_available_styles.dict EXCEPT ![category] =
                                           [present |-> TRUE, items |-> a.names,
                                            complete |-> a.complete]] ]
  /\ UNCHANGED <<Attrs, _installed_packages, restype>>

(***************************************************************************)
(* create_atoms.                                                           *)
(***************************************************************************)
ListOf(len) == [none |-> FALSE, items |-> [i \in 1..len |-> i]]

Lengths(need) == { l \in 0..(need + MaxExtra) : l = 0 \/ l >= need - 1 }

CreateInputs ==
  { [n |-> n, given |-> TRUE, id |-> id, type |-> ty, x |-> x, v |-> v, image |-> im] :
      n \in {MaxN - 1, MaxN},
      id \in {NoneList} \cup {ListOf(l) : l \in Lengths(MaxN)},
      ty \in {ListOf(l) : l \in Lengths(MaxN)},
      x  \in {ListOf(l) : l \in Lengths(3 * MaxN)},
      v  \in {NoneList} \cup {ListOf(l) : l \in Lengths(3 * MaxN)},
      im \in {NoneList} \cup {ListOf(l) : l \in Lengths(MaxN)} }

\* list[0:k]
Slice(items, k) == SubSeq(items, 1, IF Len(items) < k THEN Len(items) ELSE k)

\* arr[:] = lst[0:k] on a ctypes array of k entries raises unless the slice has k entries
Fits(lst, k) == ~lst.none /\ Len(Slice(lst.items, k)) = k

Marshal(lst, k) == [none |-> FALSE, items |-> Slice(lst.items, k)]

CreateAtoms(ctx, h, a, e) ==
  LET n == a.n
      passed == [ id    |-> IF ListTruthy(a.id) THEN Marshal(a.id, n) ELSE NoneList,
                  type  |-> Marshal(a.type, n),
                  x     |-> Marshal(a.x, 3 * n),
                  v     |-> IF ListTruthy(a.v) THEN Marshal(a.v, 3 * n) ELSE NoneList,
                  image |-> IF ListTruthy(a.image) THEN Marshal(a.image, n) ELSE NoneList ]
      r == IF ListTruthy(a.id) /\ ~Fits(a.id, n) THEN Return(ctx, "0", NoShim)
           ELSE IF ~Fits(a.type, n) THEN Return(ctx, "0", NoShim)
           ELSE IF ~Fits(a.x, 3 * n) THEN Return(ctx, "0", NoShim)
           ELSE IF ListTruthy(a.v) /\ ~Fits(a.v, 3 * n) THEN Return(ctx, "0", NoShim)
           ELSE IF ListTruthy(a.image) /\ ~Fits(a.image, n) THEN Return(ctx, "0", NoShim)
           ELSE ExceptionCheck(Native(ctx, "lammps_create_atoms", h, e), h, "created")
  IN  [res |-> r, passed |-> passed]

create_atoms ==
  /\ ~crashed
  /\ input.given
  /\ \E e \in ErrBrief :
        LET c == CreateAtoms(Ctx0, lmp, input, e)
        IN  Finish("create_atoms", [text |-> "-", passed |-> c.passed], c.res)
  /\ Fixed

(***************************************************************************)
(* Bulk gather.  A native gather call is recorded with the element type    *)
(* and the number of elements of the output buffer it is handed.           *)
(***************************************************************************)
\* ExceptionCheck.__exit__ after a block that raised `exc`: a pending engine
\* error replaces the exception, otherwise the exception propagates.
\* a shim whose check is skipped when the block raised
ExitSkippedOnError(ctx, h, exc) == Raise(ctx, exc, <<>>, NoShim)

ExceptionCheckRaised(ctx, h, exc) ==
  LET r == ExceptionCheck(ctx, h, "-")
  IN  IF r.outcome = "raise" THEN r ELSE Raise(r.ctx, exc, <<>>, r.seen)

\* count * natoms elements
NatomsOnly(count, n) == n

BufLen(count, n) == count * n

\* a native gather entry point that is handed `data`
NativeGather(ctx, fn, h, e, elem, len) ==
  LET c == Native(ctx, fn, h, e)
  IN  [c EXCEPT !.calls = Append(ctx.calls, [fn |-> fn, h |-> h, elem |-> elem, len |-> len])]

GatherTypes == {0, 1, 2}

\* with ExceptionCheck(self): if type == 0 ... elif type == 1 ... else: return None
\* (n * c_int)() raises ValueError for negative n
GatherBlock(ctx, h, fn, type, count, n, e) ==
  LET elem == IF type = 0 THEN "c_int" ELSE "c_double"
      len  == BufLen(count, n)
  IN  IF type \notin {0, 1} THEN ExceptionCheck(ctx, h, PyNone)
      ELSE IF len < 0 THEN ExceptionCheckRaised(ctx, h, "ValueError")
      ELSE ExceptionCheck(NativeGather(ctx, fn, h, e, elem, len), h, "data")

\* The arguments of one gather call and the engine's element count:
\* n is natoms for the variants that query it and ndata for the subset variants.
GatherInputs ==
  { [n |-> n, given |-> TRUE, text |-> name, type |-> type, count |-> count] :
      n \in 0..MaxAtoms, name \in Texts, type \in GatherTypes, count \in -1..MaxCount }

GatherArg == [text |-> input.text, type |-> input.type, count |-> input.count, n |-> input.n]

\* gather, gather_concat, gather_atoms, gather_atoms_concat:
\* natoms = self.get_natoms(), then the block
GatherAll(op, fn) ==
  /\ ~crashed
  /\ input.given
  /\ \E e1 \in ErrBrief, e2 \in ErrBrief :
        Finish(op, GatherArg,
               GatherBlock(Native(Ctx0, "lammps_get_natoms", lmp, e1), lmp, fn,
                           input.type, input.count, input.n, e2))
  /\ Fixed

\* gather_subset, gather_atoms_subset: the caller gives ndata
GatherSubset(op, fn) ==
  /\ ~crashed
  /\ input.given
  /\ \E e \in ErrBrief :
        Finish(op, GatherArg,
               GatherBlock(Ctx0, lmp, fn, input.type, input.count, input.n, e))
  /\ Fixed

gather_atoms == GatherAll("gather_atoms", "lammps_gather_atoms")

gather_atoms_concat == GatherAll("gather_atoms_concat", "lammps_gather_atoms_concat")

gather_atoms_subset == GatherSubset("gather_atoms_subset", "lammps_gather_atoms_subset")

gather == GatherAll("gather", "lammps_gather")

gather_concat == GatherAll("gather_concat", "lammps_gather_concat")

gather_subset == GatherSubset("gather_subset", "lammps_gather_subset")

Next ==
  \/ close
  \/ finalize
  \/ __del__
  \/ file
  \/ command
  \/ commands_string
  \/ get_thermo
  \/ get_natoms
  \/ extract_setting
  \/ set_variable
  \/ has_style
  \/ find_pair_neighlist
  \/ find_fix_neighlist
  \/ find_compute_neighlist
  \/ available_ids

Spec == Init /\ [][Next]_vars

\* Typed extraction on a wrapper that owns a live engine instance.
InitExtract == Init /\ mode = "own"

NextExtract ==
  \/ extract_global
  \/ extract_atom
  \/ extract_variable
  \/ extract_global_datatype
  \/ extract_atom_datatype

SpecExtract == InitExtract /\ [][NextExtract]_vars

\* Extraction from computes and fixes on a wrapper that owns a live engine instance.
NextStyled ==
  \/ extract_compute
  \/ extract_fix

SpecStyled == InitExtract /\ [][NextStyled]_vars

\* commands_list on a wrapper that owns a live engine instance, for every
\* list within the bounds.
InitCmds == InitBase /\ mode = "own" /\ input \in CmdInputs

NextCmds == commands_list

SpecCmds == InitCmds /\ [][NextCmds]_vars

\* create_atoms on a wrapper that owns a live engine instance, for every
\* argument tuple within the bounds.
InitCreate == InitBase /\ mode = "own" /\ input \in CreateInputs

NextCreate == create_atoms

SpecCreate == InitCreate /\ [][NextCreate]_vars

\* The gather family on a wrapper that owns a live engine instance.
InitGather == InitBase /\ mode = "own" /\ input \in GatherInputs

NextGather ==
  \/ gather_atoms
  \/ gather_atoms_concat
  \/ gather_atoms_subset
  \/ gather
  \/ gather_concat
  \/ gather_subset

SpecGather == InitGather /\ [][NextGather]_vars

\* The count-then-enumerate queries on a wrapper that owns a live engine instance.
InitIntro == Init /\ mode = "own"

NextIntro ==
  \/ available_styles
  \/ available_ids
  \/ available_plugins
  \/ installed_packages

SpecIntro == InitIntro /\ [][NextIntro]_vars

\* The cached queries on a wrapper that is closed at some point.
NextCache ==
  \/ available_styles
  \/ installed_packages
  \/ close

SpecCache == InitIntro /\ [][NextCache]_vars

\* Wrappers constructed one after the other from the list the caller holds.
NextArgs ==
  \/ lammps_cmdargs
  \/ close
  \/ release

SpecArgs == InitArgs /\ [][NextArgs]_vars

\* Construction followed by teardown.
NextInit ==
  \/ __init__
  \/ close
  \/ finalize
  \/ __del__

SpecInit == InitNew /\ [][NextInit]_vars

\* A wrapper whose constructor raised is referenced by nobody once the
\* exception has been handled: the collector runs its __del__.
Collect == ~held /\ __del__

SpecInitFair == SpecInit /\ WF_vars(Collect)

(***************************************************************************)
(* Properties.                                                             *)
(***************************************************************************)
TeardownOps == {"close", "finalize", "__del__"}

Translated == {"MPIAbortException", "Exception"}

Called(fn) == \E i \in 1..Len(last.calls) : last.calls[i].fn = fn

Ended == last.outcome # "crash"

\* C1: for a wrapper that created its own engine instance, over any sequence
\* of close(), finalize() and __del__ calls lammps_close is invoked exactly
\* once, by the first of them; later teardown calls invoke it zero times.
C1_CloseExactlyOnce ==
  mode = "own" =>
    /\ nclose <= 1
    /\ tornDown => nclose = 1
    /\ last.op \in TeardownOps =>
         (Called("lammps_close") <=> last.first)

C1_Witness ==
  /\ mode = "own"
  /\ last.op = "close"
  /\ ~last.first
  /\ ~Called("lammps_close")
  /\ nclose = 1

\* C2: after close() or finalize(), every other operation fails with an
\* invalid-state error and hands no native entry point the closed handle.
C2_ClosedHandleRejected ==
  (last.op \notin TeardownOps \cup {"__init__"} /\ last.lmpIn = "None") =>
    /\ last.outcome = "raise"
    /\ last.exc = "InvalidStateError"
    /\ \A i \in 1..Len(last.calls) : last.calls[i].h # "None"

\* C3 as amended: at the exit of a shim-wrapped call, with exception support
\* and the error flag set, the operation raises MPIAbortException if the
\* error kind is 2 and Exception otherwise, carrying the engine's message
\* with leading and trailing whitespace stripped; with the flag clear the
\* shim raises nothing.
C3_ShimTranslates ==
  (last.seen.ran /\ Ended) =>
    /\ (hasExceptions /\ last.seen.flag = 1) =>
         /\ last.outcome = "raise"
         /\ last.exc = (IF last.seen.kind = 2 THEN "MPIAbortException" ELSE "Exception")
         /\ last.msg = Strip(last.seen.msg)
    /\ last.seen.flag = 0 => ~(last.outcome = "raise" /\ last.exc \in Translated)

C3_Witness ==
  /\ hasExceptions
  /\ last.seen.ran
  /\ last.seen.flag = 1
  /\ last.seen.kind = 2
  /\ last.exc = "MPIAbortException"
  /\ last.msg # last.seen.msg

\* C3 as stated: the raised error carries the engine's message itself.
C3_Original ==
  (last.seen.ran /\ Ended) =>
    /\ (hasExceptions /\ last.seen.flag = 1) =>
         /\ last.outcome = "raise"
         /\ last.exc = (IF last.seen.kind = 2 THEN "MPIAbortException" ELSE "Exception")
         /\ last.msg = last.seen.msg
    /\ last.seen.flag = 0 => ~(last.outcome = "raise" /\ last.exc \in Translated)

\* C4: with exception support, an operation whose native call sets the
\* error flag raises the translated error before it returns.
C4_EveryCallChecked ==
  (hasExceptions /\ Ended /\ last.set) =>
    (last.outcome = "raise" /\ last.exc \in Translated)

\* C5: whenever an operation raises a translated engine error, the error
\* flag was set by a native call made inside that same operation.
C5_ErrorAttributed ==
  (Ended /\ last.outcome = "raise" /\ last.exc \in Translated) =>
    last.seen.setBy = "this"

\* C6: without exception support no operation raises a translated engine
\* error, and neither the error flag nor the last-error message is queried.
C6_ShimNoOp ==
  ~hasExceptions =>
    /\ ~(last.outcome = "raise" /\ last.exc \in Translated)
    /\ ~Called("lammps_has_error")
    /\ ~Called("lammps_get_last_error_message")

C6_Witness ==
  /\ ~hasExceptions
  /\ last.seen.ran
  /\ last.seen.flag = 1
  /\ last.outcome = "return"

\* C7: every operation taking a text argument returns its sentinel (None,
\* or -1 for set_variable) without any native call when the text is None
\* or empty.
TextOps ==
  { "file", "command", "commands_string", "get_thermo", "extract_setting",
    "extract_global", "extract_atom", "extract_compute", "extract_fix",
    "extract_variable", "set_variable",
    "gather_atoms", "gather_atoms_concat", "gather_atoms_subset",
    "scatter_atoms", "scatter_atoms_subset",
    "gather", "gather_concat", "gather_subset", "scatter", "scatter_subset" }

C7_EmptyTextShortCircuits ==
  (last.op \in TextOps /\ ~Truthy(last.arg.text)) =>
    /\ last.outcome = "return"
    /\ last.value = (IF last.op = "set_variable" THEN "-1" ELSE PyNone)
    /\ last.calls = <<>>

ExtractOps ==
  {"extract_global", "extract_atom", "extract_compute", "extract_fix", "extract_variable"}

\* C8: each extraction operation returns None and does not raise, for every
\* style/type combination, when the name or ID is unknown to the engine (the
\* native call returns NULL and sets no error).
C8_UnknownNameGivesNone ==
  ( /\ last.op \in ExtractOps
    /\ Ended
    /\ Truthy(last.arg.text)
    /\ last.arg.unknown
    /\ ~last.set
    /\ last.seen.flag = 0 ) =>
    (last.outcome = "return" /\ last.value = PyNone)

\* C9: extract_global and extract_atom return None and never raise when
\* dtype is not one of the supported datatype constants, for every name.
C9_BadDtypeGivesNone ==
  ( /\ last.op \in {"extract_global", "extract_atom"}
    /\ Ended
    /\ last.arg.dtype = "BAD" ) =>
    (last.outcome = "return" /\ last.value = PyNone)

\* C10: create_atoms returns 0 without invoking lammps_create_atoms whenever
\* a supplied list is shorter than required (id, type, image: n entries; x,
\* v: 3n entries); longer lists are accepted and only their first n (3n)
\* entries are passed to the native call.
Short(lst, k) == ~lst.none /\ Len(lst.items) < k

SomeListShort ==
  \/ Short(input.id, input.n)
  \/ Short(input.type, input.n)
  \/ Short(input.image, input.n)
  \/ Short(input.x, 3 * input.n)
  \/ Short(input.v, 3 * input.n)

FirstEntries(lst, k) ==
  IF lst.none THEN NoneList ELSE [none |-> FALSE, items |-> SubSeq(lst.items, 1, k)]

C10_ShortListsRejected ==
  (last.op = "create_atoms" /\ Ended) =>
    IF SomeListShort
      THEN last.outcome = "return" /\ last.value = "0" /\ ~Called("lammps_create_atoms")
      ELSE /\ Called("lammps_create_atoms")
           /\ last.arg.passed.id = FirstEntries(input.id, input.n)
           /\ last.arg.passed.type = FirstEntries(input.type, input.n)
           /\ last.arg.passed.image = FirstEntries(input.image, input.n)
           /\ last.arg.passed.x = FirstEntries(input.x, 3 * input.n)
           /\ last.arg.passed.v = FirstEntries(input.v, 3 * input.n)

GatherAllOps == {"gather", "gather_concat", "gather_atoms", "gather_atoms_concat"}

GatherSubsetOps == {"gather_subset", "gather_atoms_subset"}

\* the positions in last.calls of the native gather calls
GatherCalls == { i \in 1..Len(last.calls) : last.calls[i].fn = "lammps_" \o last.op }

ElemOf(type) == IF type = 0 THEN "c_int" ELSE "c_double"

\* C11: gather, gather_concat, gather_atoms and gather_atoms_concat query
\* the global element count (lammps_get_natoms) before the native gather
\* call and hand it a buffer of exactly count * natoms elements, c_int for
\* type 0 and c_double for type 1; gather_subset and gather_atoms_subset
\* hand it exactly count * ndata elements and never query the global count.
C11_GatherBufferSized ==
  /\ last.op \in GatherAllOps =>
       \A i \in GatherCalls :
          /\ \E j \in 1..(i - 1) : last.calls[j].fn = "lammps_get_natoms"
          /\ last.calls[i].len = last.arg.count * last.arg.n
          /\ last.calls[i].elem = ElemOf(last.arg.type)
          /\ last.arg.type \in {0, 1}
  /\ last.op \in GatherSubsetOps =>
       /\ ~Called("lammps_get_natoms")
       /\ \A i \in GatherCalls :
             /\ last.calls[i].len = last.arg.count * last.arg.n
             /\ last.calls[i].elem = ElemOf(last.arg.type)
             /\ last.arg.type \in {0, 1}

\* gather('x', 1, 3) on a 4-element system: a buffer of 12 doubles
C11_Witness ==
  /\ last.op = "gather"
  /\ last.arg.type = 1
  /\ last.arg.count = 3
  /\ last.arg.n = 4
  /\ last.outcome = "return"
  /\ last.value = "data"
  /\ \E i \in GatherCalls : last.calls[i].len = 12 /\ last.calls[i].elem = "c_double"

CountCalls(fn) == Cardinality({ i \in 1..Len(last.calls) : last.calls[i].fn = fn })

\* the native call of the operation handed the wrapper an engine-allocated buffer
BufferHandedOut ==
  /\ last.op \in {"extract_fix", "extract_variable"}
  /\ last.arg.owned
  /\ ~last.arg.null
  /\ Called("lammps_" \o last.op)

\* C12: every engine-allocated result buffer handed to extract_variable or
\* to extract_fix (global scalar, vector or array) is released with
\* lammps_free exactly once on every exit path of the operation, a raised
\* engine error included.
C12_BufferReleased ==
  (BufferHandedOut /\ Ended) => CountCalls("lammps_free") = 1

EnumOps == {"available_styles", "available_ids", "available_plugins", "installed_packages"}

CountFn(op) ==
  CASE op = "available_styles"   -> "lammps_style_count"
    [] op = "available_ids"      -> "lammps_id_count"
    [] op = "available_plugins"  -> "lammps_plugin_count"
    [] op = "installed_packages" -> "lammps_config_package_count"
    [] OTHER                     -> "-"

NameFn(op) ==
  CASE op = "available_styles"   -> "lammps_style_name"
    [] op = "available_ids"      -> "lammps_id_name"
    [] op = "available_plugins"  -> "lammps_plugin_name"
    [] op = "installed_packages" -> "lammps_config_package_name"
    [] OTHER                     -> "-"

IsNameCall(c) == c.fn = NameFn(last.op)

\* the name calls of the last operation, in the order they were made
NameCalls == SelectSeq(last.calls, IsNameCall)

\* C13: in each count-then-enumerate query whose native count is c, the
\* name entry point is called once per index 0..c-1 in ascending order and
\* never with an index >= c, and the list returned has exactly c entries; a
\* query that does not ask the engine for the count makes no name call.
C13_EnumerateExactlyCount ==
  (last.op \in EnumOps /\ Ended) =>
    /\ \A i \in 1..Len(NameCalls) : NameCalls[i].idx = i - 1
    /\ IF Called(CountFn(last.op))
         THEN /\ Len(NameCalls) <= last.arg.num
              /\ last.outcome = "return" =>
                   (Len(NameCalls) = last.arg.num /\ Len(last.items) = last.arg.num)
         ELSE NameCalls = <<>>

C13_Witness ==
  /\ last.op = "available_styles"
  /\ last.outcome = "return"
  /\ last.arg.num = 2
  /\ Len(NameCalls) = 2
  /\ NameCalls[2].idx = 1
  /\ Len(last.items) = 2

\* C20: a list that a failed available_styles(category) call left empty or
\* incomplete is never returned as the result of a later
\* available_styles(category) call.
C20_FailedListNotKept ==
  (last.op = "available_styles" /\ last.outcome = "return") => ~last.arg.stale

OpenCalled == Called("lammps_open") \/ Called("lammps_open_no_mpi")

\* C14: when ptr is supplied the constructor invokes neither lammps_open nor
\* lammps_open_no_mpi and adopts the supplied handle, and no later close(),
\* finalize() or __del__ invokes lammps_close on the adopted handle.
C14_AdoptedHandleNotClosed ==
  /\ (last.op = "__init__" /\ last.arg.ptr) =>
       /\ ~OpenCalled
       /\ last.outcome = "return" => (mode = "ptr" /\ lmp = "H" /\ opened = 0)
  /\ mode = "ptr" => (nclose = 0 /\ ~Called("lammps_close"))

C14_Witness ==
  /\ mode = "ptr"
  /\ held
  /\ last.op = "finalize"
  /\ last.lmpIn = "H"
  /\ ~Called("lammps_close")

\* the constructor got as far as the version check
ReachedVersionCheck ==
  /\ last.arg.loaded
  /\ ~(~last.arg.ptr /\ last.arg.comm /\ CommCheck(last.arg) # "-")

VersionsDisagree == last.arg.modVer # 0 /\ last.arg.modVer # last.arg.libVer

\* C15 as amended: a construction that loads the library and passes the
\* communicator checks fails if and only if the module version is non-zero
\* and differs from the version the library reports; with module version 0
\* or equal versions it succeeds.
C15_VersionCheck ==
  (last.op = "__init__" /\ Ended /\ ReachedVersionCheck) =>
    /\ last.outcome = "raise" <=> VersionsDisagree
    /\ last.outcome = "raise" => last.exc = "AttributeError"

C15_Witness ==
  /\ last.op = "__init__"
  /\ last.outcome = "raise"
  /\ last.exc = "AttributeError"
  /\ last.arg.modVer = 2
  /\ last.arg.libVer = 1
  /\ OpenCalled

\* C15 as stated: construction fails if and only if the module version is
\* non-zero and differs from the library's version.
C15_Original ==
  (last.op = "__init__" /\ Ended) =>
    (last.outcome = "raise" <=> VersionsDisagree)

\* a communicator the library cannot take
CommUnusable ==
  /\ last.arg.comm
  /\ \/ last.arg.libMpi = 0
     \/ last.arg.mpi4py \notin {"2", "3"}
     \/ last.arg.commSize # last.arg.libMpi

RaisedBeforeOpen ==
  /\ last.outcome = "raise"
  /\ ~OpenCalled
  /\ opened = 0
  /\ lmp = "None"
  /\ ~engineAlive

\* C16 as amended: when no external handle is supplied, a communicator is
\* supplied and the library lacks real MPI support, or mpi4py is not
\* version 2 or 3, or the communicator sizes differ, the constructor raises
\* before lammps_open is invoked, leaving opened = 0 and the handle null.
C16_CommChecksFailFast ==
  (last.op = "__init__" /\ ~last.arg.ptr /\ CommUnusable) => RaisedBeforeOpen

C16_Witness ==
  /\ last.op = "__init__"
  /\ ~last.arg.ptr
  /\ last.arg.loaded
  /\ last.arg.comm
  /\ last.arg.libMpi = SizeofCInt
  /\ last.arg.mpi4py = "3"
  /\ last.arg.commSize = SizeofVoidP
  /\ last.exc = "Exception"
  /\ RaisedBeforeOpen

\* C16 as stated: whenever a communicator is supplied and one of the three
\* conditions holds, the constructor raises before lammps_open.
C16_Original ==
  (last.op = "__init__" /\ CommUnusable) => RaisedBeforeOpen

\* the constructor raised after lammps_open returned a handle
FailedAfterOpen == mode = "own" /\ ~held /\ ~crashed

CalledIn(calls, fn) == \E i \in 1..Len(calls) : calls[i].fn = fn

\* C18: finalize() invokes lammps_close if and only if the handle is open,
\* marks the handle closed (lmp = None, opened = 0), and invokes
\* lammps_finalize last, when the handle is no longer open.
C18_FinalizeClosesFirst ==
  [][ nfinalize' # nfinalize =>
        /\ last'.op = "finalize"
        /\ CalledIn(last'.calls, "lammps_close") <=> opened = 1
        /\ lmp' = "None"
        /\ opened' = 0
        /\ LET n == Len(last'.calls)
           IN  /\ last'.calls[n].fn = "lammps_finalize"
               /\ last'.calls[n].opened = 0
               /\ \A i \in 1..(n - 1) : last'.calls[i].fn = "lammps_close" ]_vars

C18_Witness ==
  /\ last.op = "finalize"
  /\ last.first
  /\ Len(last.calls) = 2
  /\ last.calls[1].fn = "lammps_close"
  /\ last.calls[2].fn = "lammps_finalize"
  /\ lmp = "None"
  /\ opened = 0

\* C19: in any sequence of finalize() calls lammps_finalize is invoked at
\* most once.
C19_FinalizeOnce == nfinalize <= 1

CachedOps == {"available_styles", "installed_packages"}

\* C21: within one open handle a repeated cached query (available_styles
\* for the same category, installed_packages) returns the cached list
\* without any native call, and a list cached under a handle is not
\* returned once that handle has been closed.
C21_CacheBoundToHandle ==
  (last.op \in CachedOps /\ Ended /\ last.arg.hit) =>
    /\ last.calls = <<>>
    /\ last.lmpIn # "None"

DatatypeOps == {"extract_global_datatype", "extract_atom_datatype"}

\* the engine's datatype for the keyword the datatype query was called with
EngineType ==
  IF last.op = "extract_global_datatype" THEN EngineGlobalType(last.arg.text)
  ELSE EngineAtomType(last.arg.text)

\* C22: extract_global_datatype(name) and extract_atom_datatype(name) return
\* None when the keyword is not recognized (the native query reports
\* not-found), and the datatype constant otherwise.
C22_UnknownKeywordGivesNone ==
  (last.op \in DatatypeOps /\ Ended) =>
    /\ last.outcome = "return"
    /\ last.value = (IF last.arg.unknown THEN PyNone ELSE EngineType)

ExtractFns ==
  {"lammps_extract_global", "lammps_extract_atom", "lammps_extract_compute",
   "lammps_extract_fix", "lammps_extract_variable"}

\* C26: whenever an extraction method reaches its native extraction entry
\* point, the return shape in force for that entry point was assigned by the
\* same method call from its own datatype (or style/type) tag; it is never a
\* shape left over from an earlier call.
C26_ShapeSetByThisCall ==
  (last.op \in ExtractOps) =>
    \A i \in 1..Len(last.calls) :
       last.calls[i].fn \in ExtractFns => last.calls[i].fresh

\* C27: lammps_close is never invoked with a null handle by close(),
\* finalize() or __del__, also on a wrapper whose native create call
\* returned null.
C27_CloseNeverOnNull ==
  (last.op \in TeardownOps) =>
    \A i \in 1..Len(last.calls) :
       last.calls[i].fn = "lammps_close" => last.calls[i].h = "H"

\* C30: set_variable(name, value) with a non-empty name converts every
\* supplied value to its string form and forwards it to the engine, the
\* values 0, 0.0 and False included; it returns -1 without a native call
\* only when name or value is None or the empty string.
C30_FalsyValuesForwarded ==
  (last.op = "set_variable" /\ Ended) =>
    IF Truthy(last.arg.text) /\ last.arg.value \notin {PyNone, ""}
      THEN Called("lammps_set_variable")
      ELSE last.outcome = "return" /\ last.value = "-1" /\ last.calls = <<>>

\* the guarded block of a gather call raised by itself: (n * c_type)() with n < 0
BlockRaised ==
  /\ last.op \in GatherAllOps \cup GatherSubsetOps
  /\ last.arg.type \in {0, 1}
  /\ last.arg.count * last.arg.n < 0

\* C25: the shim's check also runs when the guarded block is left through an
\* error that was already raised: with exception support and the engine's
\* error flag set, the translated engine error is raised in place of the
\* original error; with the flag not set, the original error propagates
\* unchanged.
C25_CheckRunsAfterError ==
  (BlockRaised /\ Ended) =>
    /\ last.seen.ran
    /\ last.outcome = "raise"
    /\ (hasExceptions /\ last.seen.flag = 1) =>
          /\ last.exc \in Translated
          /\ last.msg = Strip(last.seen.msg)
          /\ Called("lammps_get_last_error_message")
    /\ last.seen.flag = 0 => (last.exc = "ValueError" /\ last.msg = <<>>)

\* gather with a negative count, the engine having set its error flag in
\* lammps_get_natoms: the engine error replaces the ValueError
C25_Witness ==
  /\ BlockRaised
  /\ last.op = "gather"
  /\ Called("lammps_get_natoms")
  /\ hasExceptions
  /\ last.seen.ran
  /\ last.seen.flag = 1
  /\ last.outcome = "raise"
  /\ last.exc \in Translated

\* the entries of a C string array that are not NULL pointers
IsNonNull(a) == a # "NULL"

\* the texts of a list of str or bytes entries, in order
TextsOf(lst) == [i \in 1..Len(lst) |-> lst[i].s]

\* C28: commands_list(cmdlist) passes the engine a count equal to the number
\* of non-null command strings in the array it hands over, and the commands
\* in the caller's order, for every cmdlist, entries that are not of type
\* str (bytes) included.
C28_CountMatchesCommands ==
  (last.op = "commands_list") =>
    \A i \in 1..Len(last.calls) :
       last.calls[i].fn = "lammps_commands_list" =>
         /\ last.calls[i].narg = Len(SelectSeq(last.calls[i].args, IsNonNull))
         /\ last.calls[i].args = TextsOf(last.arg.cmdlist)

OpenFns == {"lammps_open", "lammps_open_no_mpi"}

\* the vector the claim expects for the list the constructor was called with
ExpectedArgv == <<"lammps">> \o TextsOf(last.arg.cmdargs.items)

C29_CallerListUnchanged ==
  /\ (last.op = "__init__" /\ Ended) => input.cmdargs = last.arg.cmdargs
  /\ \A i, j \in 1..Len(handed) : handed[i] = handed[j]

====
